---- MODULE Spec2Model ----
(***************************************************************************)
(* ContractGuard: the Streamlit app (src/app.py) and the Stripe webhook    *)
(* (src/webhook.py), modelled as a state machine over the Supabase tables, *)
(* one browser session and the requests that reach the two programs.       *)
(*                                                                         *)
(* Strings are kept run-length encoded: a text is a sequence of runs       *)
(* [c |-> character, n |-> count >= 1] in which neighbouring runs carry    *)
(* different characters, so that every Python string has exactly one       *)
(* representation, the empty string is <<>>, and documents of the size the *)
(* program's constants speak of (15000, 8000) stay small values.           *)
(***************************************************************************)
EXTENDS Integers, Sequences, FiniteSets, TLC

VARIABLES
    \* ---- the Supabase tables (the Persistent Store)
    uploaded_contracts,  \* TABLE_UPLOADED: file_hash -> text, the rows present
    summaries,           \* TABLE_SUMMARIES: file_hash -> summary, the rows present
    paid_files,          \* TABLE_PAID: file_hash -> number of rows carrying it
    paid_unique,         \* the schema: does paid_files.file_hash carry a unique key
    \* ---- one browser session of the Streamlit app
    contract_text,       \* st.session_state.contract_text
    file_hash,           \* st.session_state.file_hash
    analysis_output,     \* st.session_state.analysis_output
    checkout_url,        \* st.session_state.checkout_url: "" is None, else the
                         \* hash in the success_url of the session it opens
    uploaded_file,       \* the file held by st.file_uploader ("" is none)
    query,               \* st.query_params: "" is none, h is success=true&hash=h
    view,                \* what the last script run rendered
    \* ---- what the last request did
    llm_calls,           \* the calls of analyze_contract it made, in order
    writes,              \* the table rows it wrote
    event,               \* the event it carried, if it was a POST to /webhook
    resp,                \* and the webhook's response to it: [status, body]
    \* ---- split_into_chunks called on its own (specification SpecChunks)
    text,            \* the argument text
    max_chars,       \* the argument max_chars
    chunks,          \* the list returned
    cpc,             \* "call" before the call, "done" after it
    \* ---- two requests for one fingerprint, interleaved (specification SpecRace)
    race             \* the fingerprint, and each request's position and locals

chunkVars == <<text, max_chars, chunks, cpc>>
storeVars == <<uploaded_contracts, summaries, paid_files, paid_unique>>
sessionVars ==
    <<contract_text, file_hash, analysis_output, checkout_url, uploaded_file,
      query, view>>
appVars == <<storeVars, sessionVars, llm_calls, writes, event, resp>>
vars == <<appVars, chunkVars, race>>

-----------------------------------------------------------------------------
(* Python strings *)

NL == "\n"

Run(c, n) == [c |-> c, n |-> n]

\* the separator "\n\n"
NLNL == <<Run(NL, 2)>>

\* a + b
Cat(a, b) ==
    IF a = <<>> THEN b
    ELSE IF b = <<>> THEN a
    ELSE IF a[Len(a)].c = b[1].c
         THEN SubSeq(a, 1, Len(a) - 1)
                \o <<Run(b[1].c, a[Len(a)].n + b[1].n)>>
                \o Tail(b)
         ELSE a \o b

\* len(t)
RECURSIVE StrLen(_)
StrLen(t) == IF t = <<>> THEN 0 ELSE t[1].n + StrLen(Tail(t))

\* t[:k]
RECURSIVE Prefix(_, _)
Prefix(t, k) ==
    IF t = <<>> \/ k <= 0 THEN <<>>
    ELSE IF t[1].n >= k THEN <<Run(t[1].c, k)>>
    ELSE <<t[1]>> \o Prefix(Tail(t), k - t[1].n)

\* "".join(parts)
RECURSIVE Concat(_)
Concat(parts) ==
    IF parts = <<>> THEN <<>> ELSE Cat(parts[1], Concat(Tail(parts)))

\* "\n\n".join(parts)
RECURSIVE JoinNLNL(_)
JoinNLNL(parts) ==
    IF parts = <<>> THEN <<>>
    ELSE IF Len(parts) = 1 THEN parts[1]
    ELSE Cat(Cat(parts[1], NLNL), JoinNLNL(Tail(parts)))

\* t.split("\n\n"), scanning left to right from run i: cur is the paragraph
\* being read, acc the paragraphs already closed.  A run of n newlines holds
\* n \div 2 separators, found from its left end; an odd newline left over
\* opens the next paragraph.  A single newline belongs to the paragraph.
RECURSIVE SplitFrom(_, _, _, _)
SplitFrom(t, i, cur, acc) ==
    IF i > Len(t) THEN Append(acc, cur)
    ELSE IF t[i].c # NL \/ t[i].n < 2
         THEN SplitFrom(t, i + 1, Cat(cur, <<t[i]>>), acc)
    ELSE SplitFrom(t, i + 1,
                   IF t[i].n % 2 = 1 THEN <<Run(NL, 1)>> ELSE <<>>,
                   Append(acc, cur) \o [j \in 1..((t[i].n \div 2) - 1) |-> <<>>])

SplitNLNL(t) == SplitFrom(t, 1, <<>>, <<>>)

-----------------------------------------------------------------------------
(* split_into_chunks, src/app.py 220-235 *)

\* A faulty loop: when a paragraph does not fit, the chunk being built is
\* dropped instead of appended (line 231 left out).
RECURSIVE ChunkLoop_DropsFullChunk(_, _, _, _, _)
ChunkLoop_DropsFullChunk(paragraphs, i, current, acc, maxc) ==
    IF i > Len(paragraphs)
    THEN IF current # <<>> THEN Append(acc, current) ELSE acc
    ELSE LET para == paragraphs[i] IN
         IF StrLen(current) + StrLen(para) + 2 <= maxc
         THEN ChunkLoop_DropsFullChunk(paragraphs, i + 1,
                                       Cat(Cat(current, para), NLNL), acc, maxc)
         ELSE ChunkLoop_DropsFullChunk(paragraphs, i + 1,
                                       Cat(para, NLNL), acc, maxc)

\* the loop over paragraphs from index i, with the locals current and chunks
RECURSIVE ChunkLoop(_, _, _, _, _)
ChunkLoop(paragraphs, i, current, acc, maxc) ==
    IF i > Len(paragraphs)
    THEN IF current # <<>> THEN Append(acc, current) ELSE acc
    ELSE LET para == paragraphs[i] IN
         IF StrLen(current) + StrLen(para) + 2 <= maxc
         THEN ChunkLoop(paragraphs, i + 1, Cat(Cat(current, para), NLNL), acc, maxc)
         ELSE ChunkLoop(paragraphs, i + 1, Cat(para, NLNL), Append(acc, current), maxc)

\* A faulty chunker: a paragraph longer than the budget is cut down to it.
split_into_chunks_CutsLong(t, maxc) ==
    ChunkLoop([k \in DOMAIN SplitNLNL(t) |-> Prefix(SplitNLNL(t)[k], maxc)],
              1, <<>>, <<>>, maxc)

split_into_chunks(t, maxc) == ChunkLoop(SplitNLNL(t), 1, <<>>, <<>>, maxc)

-----------------------------------------------------------------------------
(* Documents, the LLM endpoint and the store, as src/app.py sees them *)

DefaultMaxChars == 15000
MaxPayload == 8000

\* The files a user may submit, each named by the SHA-256 of its bytes.
Hashes == {"h1", "h2"}

\* The text the extractor yields for each file: one short paragraph, and two
\* paragraphs that do not fit one chunk together.
ExtractedText(h) ==
    IF h = "h1" THEN <<Run("A", 100)>>
    ELSE <<Run("B", 9000), Run(NL, 2), Run("C", 9000)>>

extract_text_and_hash(file) ==
    [text |-> ExtractedText(file), file_hash |-> file]

\* What the LLM endpoint may answer to one call: an exception, or a text.
Responses == {<<Run("x", 1200)>>}
Outcomes ==
    {[ok |-> FALSE, content |-> <<>>]}
        \cup {[ok |-> TRUE, content |-> r] : r \in Responses}

NoRow == [present |-> FALSE, value |-> <<>>]
Row(v) == [present |-> TRUE, value |-> v]

\* The state one script run works on: the session, the tables, and what the
\* run has rendered and done so far.
PageState(ct, fh, ao, cu) ==
    [contract_text |-> ct, file_hash |-> fh, analysis_output |-> ao,
     checkout_url |-> cu,
     uploaded_contracts |-> uploaded_contracts, summaries |-> summaries,
     paid_files |-> paid_files,
     llm_calls |-> <<>>, writes |-> {}, output |-> <<>>, rerun |-> FALSE,
     prompt |-> FALSE, shown |-> <<>>, hist |-> {}]

\* The inputs of one script run: the widget pressed, the URL's query, the
\* uploader's file, whether the store answers reads and writes with 2xx, and
\* the endpoint's answers to the calls in order.
Input(button, arg, q, uf, get_ok, post_ok, outs) ==
    [button |-> button, arg |-> arg, query |-> q, uploaded_file |-> uf,
     get_ok |-> get_ok, post_ok |-> post_ok, outs |-> outs]

NoButton(in) == [in EXCEPT !.button = "none", !.arg = ""]

\* supabase_get: the rows of a 2xx answer, [] for any other status
supabase_get(rows, ok) == IF ok THEN rows ELSE <<>>

\* supabase_insert(table, data, upsert=True): merge on the key
supabase_insert(table, h, v, ok) ==
    IF ok THEN [table EXCEPT ![h] = Row(v)] ELSE table

RowsOf(table, h) ==
    IF h \in Hashes /\ table[h].present
    THEN <<[file_hash |-> h, value |-> table[h].value]>> ELSE <<>>

PaidRowsOf(P, h) ==
    IF h \in Hashes THEN [i \in 1..P.paid_files[h] |-> [file_hash |-> h]]
    ELSE <<>>

file_already_paid(P, in, h) ==
    Len(supabase_get(PaidRowsOf(P, h), in.get_ok)) > 0

get_summary_by_hash(P, in, h) ==
    LET results == supabase_get(RowsOf(P.summaries, h), in.get_ok)
    IN  IF results # <<>> THEN results[1].value ELSE <<>>

\* Called at src/app.py 252 and 278, defined in no file under src/: the read
\* of raw_text[fingerprint] that the spec gives the Persistent Store.
get_contract_text_by_hash(P, in, h) ==
    LET results == supabase_get(RowsOf(P.uploaded_contracts, h), in.get_ok)
    IN  IF results # <<>> THEN results[1].value ELSE <<>>

save_uploaded_contract(P, in, h, t) ==
    [P EXCEPT !.uploaded_contracts = supabase_insert(@, h, t, in.post_ok),
              !.writes = IF in.post_ok THEN @ \cup {<<"uploaded_contracts", h>>}
                         ELSE @]

\* A faulty save: the new text is appended to the stored one instead of
\* replacing it.
save_summary_Appends(P, in, h, t) ==
    [P EXCEPT !.summaries =
                 supabase_insert(@, h, Cat(P.summaries[h].value, t), in.post_ok),
              !.writes = IF in.post_ok THEN @ \cup {<<"summaries", h>>} ELSE @]

save_summary(P, in, h, t) ==
    [P EXCEPT !.summaries = supabase_insert(@, h, t, in.post_ok),
              !.writes = IF in.post_ok THEN @ \cup {<<"summaries", h>>} ELSE @]

get_user_history(P, in) ==
    IF in.get_ok THEN {h \in Hashes : P.uploaded_contracts[h].present} ELSE {}

\* analyze_contract: one call of the endpoint on prompt + text[:8000]; the
\* answer's content, or "" when the call raises.  The call is appended to the
\* run's log with the fingerprint the session holds.
analyze_contract(P, in, t) ==
    LET o == in.outs[Len(P.llm_calls) + 1]
    IN  [P EXCEPT !.llm_calls =
            Append(@, [fh |-> P.file_hash, text |-> t,
                       payload |-> Prefix(t, MaxPayload),
                       out |-> IF o.ok THEN o.content ELSE <<>>])]

LastOut(P) == P.llm_calls[Len(P.llm_calls)].out

-----------------------------------------------------------------------------
(* The script of src/app.py, top to bottom *)

\* 245-262: the sidebar's history buttons
SidebarHistory(P, in) ==
    LET history_data == get_user_history(P, in)
        P0 == [P EXCEPT !.hist = history_data]
    IN  IF in.button = "hist" /\ in.arg \in history_data
        THEN LET t == get_contract_text_by_hash(P0, in, in.arg) IN
             IF t # <<>>
             THEN LET P1 == [P0 EXCEPT !.contract_text = t, !.file_hash = in.arg]
                      summary == get_summary_by_hash(P1, in, in.arg)
                  IN  IF summary # <<>>
                      THEN [P1 EXCEPT !.analysis_output = summary, !.rerun = TRUE]
                      ELSE P1
             ELSE P0
        ELSE P0

\* 297-299: the map phase, chunk i onwards
RECURSIVE MapChunks(_, _, _, _)
MapChunks(P, in, chs, i) ==
    IF i > Len(chs) THEN P
    ELSE MapChunks(analyze_contract(P, in, chs[i]), in, chs, i + 1)

\* A faulty summarizer: the reduce call is left out and the partial findings,
\* joined, are the result.
Summarize_NoReduce(P, in, t) ==
    LET chs == split_into_chunks(t, DefaultMaxChars) IN
    IF Len(chs) = 1
    THEN LET P1 == analyze_contract(P, in, t)
         IN  [P1 EXCEPT !.output = LastOut(P1)]
    ELSE LET base == Len(P.llm_calls)
             Pm == MapChunks(P, in, chs, 1)
             partial_summaries ==
                 [i \in 1..Len(chs) |-> Pm.llm_calls[base + i].out]
         IN  [Pm EXCEPT !.output = JoinNLNL(partial_summaries)]

\* 291-302: chunk, then one call, or one call per chunk and a final call
Summarize(P, in, t) ==
    LET chs == split_into_chunks(t, DefaultMaxChars) IN
    IF Len(chs) = 1
    THEN LET P1 == analyze_contract(P, in, t)
         IN  [P1 EXCEPT !.output = LastOut(P1)]
    ELSE LET base == Len(P.llm_calls)
             Pm == MapChunks(P, in, chs, 1)
             partial_summaries ==
                 [i \in 1..Len(chs) |-> Pm.llm_calls[base + i].out]
             combined == JoinNLNL(partial_summaries)
             Pr == analyze_contract(Pm, in, combined)
         IN  [Pr EXCEPT !.output = LastOut(Pr)]

\* 276-304: the payment redirect, ?success=true&hash=h
PaymentRedirect(P, in) ==
    IF in.query = "" THEN P
    ELSE LET h == in.query
             t == get_contract_text_by_hash(P, in, h)
         IN  IF t = <<>> THEN P
             ELSE LET P1 == [P EXCEPT !.contract_text = t, !.file_hash = h]
                      existing == get_summary_by_hash(P1, in, h)
                  IN  IF existing # <<>>
                      THEN [P1 EXCEPT !.analysis_output = existing]
                      ELSE LET P2 == Summarize(P1, in, t)
                               P3 == [P2 EXCEPT !.analysis_output = P2.output]
                           IN  save_summary(P3, in, h, P2.output)

\* 308-322: the upload section
UploadSection(P, in) ==
    IF in.uploaded_file = "" THEN P
    ELSE LET e == extract_text_and_hash(in.uploaded_file)
             P1 == [P EXCEPT !.contract_text = e.text,
                             !.file_hash = e.file_hash,
                             !.analysis_output = <<>>]
             P2 == save_uploaded_contract(P1, in, e.file_hash, e.text)
             existing == get_summary_by_hash(P2, in, e.file_hash)
         IN  IF existing # <<>>
             THEN [P2 EXCEPT !.analysis_output = existing]
             ELSE P2

\* 343-358: stripe.checkout.Session.create for the session's file.  The call
\* passes success_url and cancel_url and no metadata: the session Stripe
\* creates carries the hash in its success_url only.  url stands for
\* session.url, named by the hash its success_url holds; file_hash is
\* metadata.get("file_hash"), "" for None.
CheckoutSessionCreate(h) ==
    [url |-> h, success_hash |-> h, file_hash |-> ""]

\* 325-367: the preview, the summary if there is one, else the payment prompt
PreviewSection(P, in) ==
    IF P.contract_text = <<>> THEN P
    ELSE LET already_paid == file_already_paid(P, in, P.file_hash) IN
         IF P.analysis_output # <<>>
         THEN [P EXCEPT !.shown = P.analysis_output]
         ELSE IF ~already_paid
         THEN LET P1 == [P EXCEPT !.prompt = TRUE]
                  P2 == IF in.button = "link"
                        THEN [P1 EXCEPT !.checkout_url =
                                            CheckoutSessionCreate(P.file_hash).url]
                        ELSE P1
              IN  P2
         ELSE P

\* 370-404: the summary and its buttons; Refresh Summary (no charge)
AnalysisSection(P, in) ==
    IF P.analysis_output = <<>> THEN P
    ELSE LET P1 == [P EXCEPT !.shown = P.analysis_output] IN
         IF in.button = "refresh"
         THEN LET P2 == analyze_contract(P1, in, P1.contract_text)
                  P3 == [P2 EXCEPT !.analysis_output = LastOut(P2)]
              IN  save_summary(P3, in, P3.file_hash, LastOut(P2))
         ELSE P1

ScriptBody(P, in) ==
    AnalysisSection(PreviewSection(UploadSection(PaymentRedirect(P, in), in), in), in)

\* One interaction: the script runs top to bottom; st.experimental_rerun()
\* (260) abandons the run and starts the script again with no button pressed.
ScriptRun(P, in) ==
    LET P1 == SidebarHistory(P, in) IN
    IF P1.rerun
    THEN ScriptBody(SidebarHistory([P1 EXCEPT !.rerun = FALSE], NoButton(in)),
                    NoButton(in))
    ELSE ScriptBody(P1, in)

-----------------------------------------------------------------------------
(* The webhook of src/webhook.py *)

MaxPaidRows == 3

EventTypes == {"checkout.session.completed", "payment_intent.succeeded"}

\* The POST of 37-50, a plain insert: a unique key on file_hash refuses a
\* second row (409), no such key lets it in.
InsertPaid(paid, unique, h, post_ok) ==
    IF ~post_ok \/ (unique /\ paid[h] > 0)
    THEN [paid |-> paid, ok |-> FALSE]
    ELSE [paid |-> [paid EXCEPT ![h] = @ + 1], ok |-> TRUE]

\* A faulty webhook: the payload is parsed without construct_event's
\* signature check.
webhook_NoSignatureCheck(paid, unique, ev, post_ok) ==
    IF ev.type = "checkout.session.completed" /\ ev.file_hash # ""
    THEN LET r == InsertPaid(paid, unique, ev.file_hash, post_ok) IN
         IF r.ok THEN [paid |-> r.paid, status |-> 200, body |-> "success"]
         ELSE [paid |-> r.paid, status |-> 500, body |-> "error"]
    ELSE [paid |-> paid, status |-> 200, body |-> "ignored"]

\* 18-56.  ev: verify is what construct_event does ("ok", or "bad_signature"
\* for a SignatureVerificationError), type the event's type, file_hash the
\* session's metadata entry ("" when it has none).
webhook(paid, unique, ev, post_ok) ==
    IF ev.verify = "bad_signature"
    THEN [paid |-> paid, status |-> 400, body |-> "Invalid signature"]
    ELSE IF ev.type = "checkout.session.completed" /\ ev.file_hash # ""
    THEN LET r == InsertPaid(paid, unique, ev.file_hash, post_ok) IN
         IF r.ok THEN [paid |-> r.paid, status |-> 200, body |-> "success"]
         ELSE [paid |-> r.paid, status |-> 500, body |-> "error"]
    ELSE [paid |-> paid, status |-> 200, body |-> "ignored"]

-----------------------------------------------------------------------------
(* The state machine *)

NoView == [prompt |-> FALSE, shown |-> <<>>, hist |-> {}]
NoEvent == [verify |-> "", type |-> "", file_hash |-> ""]
NoResp == [status |-> 0, body |-> ""]

InitApp ==
    /\ uploaded_contracts = [h \in Hashes |-> NoRow]
    /\ summaries = [h \in Hashes |-> NoRow]
    /\ paid_files = [h \in Hashes |-> 0]
    /\ contract_text = <<>>
    /\ file_hash = ""
    /\ analysis_output = <<>>
    /\ checkout_url = ""
    /\ uploaded_file = ""
    /\ query = ""
    /\ view = NoView
    /\ event = NoEvent
    /\ llm_calls = <<>>
    /\ writes = {}
    /\ resp = NoResp

\* no interleaved requests under way
NoRace == [f |-> "", pc |-> <<>>, text |-> <<>>, output |-> <<>>,
           wrote |-> <<>>, last |-> 0]

IdleChunks ==
    /\ text = <<>>
    /\ max_chars = DefaultMaxChars
    /\ chunks = <<>>
    /\ cpc = "idle"

\* The app tells a paid file by len(results) > 0 alone, so the whole system is
\* run on the schema that keeps one row per file; SpecWebhook runs the
\* webhook on both schemas.
Init ==
    /\ InitApp
    /\ paid_unique = TRUE
    /\ IdleChunks
    /\ race = NoRace

\* the most calls one run can make: a summarization and a refresh
MaxChunks ==
    CHOOSE n \in 1..8 :
        /\ \A h \in Hashes : Len(split_into_chunks(ExtractedText(h), DefaultMaxChars)) <= n
        /\ \E h \in Hashes : Len(split_into_chunks(ExtractedText(h), DefaultMaxChars)) = n
AllAnswer == [i \in 1..(MaxChunks + 2) |-> CHOOSE o \in Outcomes : o.ok]

\* The run of the script on P with the given widget state and store answers,
\* for every answer of the endpoint.
Step(button, arg, q, uf, P, get_ok, post_ok) ==
      \E n \in {Len(ScriptRun(P, Input(button, arg, q, uf, get_ok, post_ok,
                                        AllAnswer)).llm_calls)} :
      \E outs \in [1..n -> Outcomes] :
      \E R \in {ScriptRun(P, Input(button, arg, q, uf, get_ok, post_ok, outs))} :
        /\ contract_text' = R.contract_text
        /\ file_hash' = R.file_hash
        /\ analysis_output' = R.analysis_output
        /\ checkout_url' = R.checkout_url
        /\ uploaded_contracts' = R.uploaded_contracts
        /\ summaries' = R.summaries
        /\ uploaded_file' = uf
        /\ query' = q
        /\ view' = [prompt |-> R.prompt, shown |-> R.shown, hist |-> R.hist]
        /\ event' = NoEvent
        /\ llm_calls' = R.llm_calls
        /\ writes' = R.writes
        /\ resp' = NoResp
        /\ UNCHANGED <<paid_files, paid_unique, chunkVars, race>>

Request(button, arg, q, uf, P) ==
    \E get_ok \in BOOLEAN, post_ok \in BOOLEAN :
        Step(button, arg, q, uf, P, get_ok, post_ok)

Session == PageState(contract_text, file_hash, analysis_output, checkout_url)

\* The browser opens the app's URL, bare or as the success redirect: a new
\* session with the defaults of 44-52 and an empty uploader.
FreshSession == PageState(<<>>, "", <<>>, "")

PageLoadOf(q) == Request("none", "", q, "", FreshSession)

PageLoad == \E q \in Hashes \cup {""} : PageLoadOf(q)

\* The user puts a file into the uploader.
UploadFileOf(h) == Request("none", "", query, h, Session)

UploadFile == \E h \in Hashes : UploadFileOf(h)

\* Any other widget makes the script run again.
Rerun == Request("none", "", query, uploaded_file, Session)

ClickHistory ==
    \E h \in view.hist :
        Request("hist", h, query, uploaded_file, Session)

ClickGenerateLink ==
    /\ view.prompt
    /\ Request("link", "", query, uploaded_file, Session)

ClickRefresh ==
    /\ view.shown # <<>>
    /\ Request("refresh", "", query, uploaded_file, Session)

\* The events that reach the endpoint: Stripe's own, signed, a completed
\* session carrying a file_hash in its metadata or none, or an event of
\* another type; and a forged one, which claims a completed session for a file.
AnyHash == CHOOSE h \in Hashes : TRUE
Events ==
    {[verify |-> "ok", type |-> "checkout.session.completed", file_hash |-> h] :
        h \in Hashes \cup {""}}
    \cup {[verify |-> "ok", type |-> "payment_intent.succeeded",
           file_hash |-> AnyHash]}
    \cup {[verify |-> "bad_signature", type |-> "checkout.session.completed",
           file_hash |-> AnyHash]}

\* The event Stripe signs and sends when a checkout session is paid: it
\* carries the session object, and with it the metadata given at creation.
CompletionEvent(session) ==
    [verify |-> "ok", type |-> "checkout.session.completed",
     file_hash |-> session.file_hash]

\* A POST reaches /webhook, and the store answers its insert or does not.
Delivery(ev, post_ok) ==
        LET r == webhook(paid_files, paid_unique, ev, post_ok) IN
        /\ \A h \in Hashes : r.paid[h] <= MaxPaidRows
        /\ paid_files' = r.paid
        /\ resp' = [status |-> r.status, body |-> r.body]
        /\ event' = ev
        /\ llm_calls' = <<>>
        /\ writes' = {<<"paid_files", h>> : h \in {k \in Hashes : r.paid[k] # paid_files[k]}}
        /\ UNCHANGED <<uploaded_contracts, summaries, paid_unique, sessionVars,
                       chunkVars, race>>

Webhook == \E ev \in Events, post_ok \in BOOLEAN : Delivery(ev, post_ok)

Next ==
    \/ PageLoad
    \/ UploadFile
    \/ Rerun
    \/ ClickHistory
    \/ ClickGenerateLink
    \/ ClickRefresh
    \/ Webhook

Spec == Init /\ [][Next]_vars

\* The webhook alone, on either schema of paid_files.
InitWebhook ==
    /\ InitApp
    /\ paid_unique \in BOOLEAN
    /\ IdleChunks
    /\ race = NoRace

NextWebhook == Webhook

SpecWebhook == InitWebhook /\ [][NextWebhook]_vars

-----------------------------------------------------------------------------
(* Specification SpecChunks: split_into_chunks on every small text *)

MaxRuns == 5
MaxRunLen == 4
MaxBudget == 8

Chars == {"a", NL}
RunSet == [c : Chars, n : 1..MaxRunLen]
Texts ==
    {t \in UNION {[1..k -> RunSet] : k \in 0..MaxRuns} :
        \A i \in 1..(Len(t) - 1) : t[i].c # t[i + 1].c}

InitChunks ==
    /\ InitApp
    /\ paid_unique = TRUE
    /\ text \in Texts
    /\ max_chars \in 0..MaxBudget
    /\ chunks = <<>>
    /\ cpc = "call"
    /\ race = NoRace

CallSplit ==
    /\ cpc = "call"
    /\ chunks' = split_into_chunks(text, max_chars)
    /\ cpc' = "done"
    /\ UNCHANGED <<text, max_chars, appVars, race>>

NextChunks == CallSplit

SpecChunks == InitChunks /\ [][NextChunks]_vars

-----------------------------------------------------------------------------
(* Specification SpecRace: two browser sessions open the payment redirect   *)
(* for the same paid fingerprint, and their reads of the store, their       *)
(* summarizations and their writes interleave.                              *)

Procs == {1, 2}

\* The endpoint may give the two requests different answers.
RaceOutcomes ==
    Outcomes \cup {[ok |-> TRUE, content |-> <<Run("y", 1300)>>]}

\* The file is uploaded and paid for, and has no summary yet.
InitRace ==
    /\ \E f \in Hashes :
          /\ uploaded_contracts =
                [h \in Hashes |-> IF h = f THEN Row(ExtractedText(h)) ELSE NoRow]
          /\ paid_files = [h \in Hashes |-> IF h = f THEN 1 ELSE 0]
          /\ race = [f |-> f, pc |-> [p \in Procs |-> "text"],
                     text |-> [p \in Procs |-> <<>>],
                     output |-> [p \in Procs |-> <<>>],
                     wrote |-> [p \in Procs |-> FALSE], last |-> 0]
    /\ summaries = [h \in Hashes |-> NoRow]
    /\ paid_unique = TRUE
    /\ contract_text = <<>>
    /\ file_hash = ""
    /\ analysis_output = <<>>
    /\ checkout_url = ""
    /\ uploaded_file = ""
    /\ query = ""
    /\ view = NoView
    /\ event = NoEvent
    /\ llm_calls = <<>>
    /\ writes = {}
    /\ resp = NoResp
    /\ IdleChunks

\* what request p works on: its own session, the shared tables
RaceState(p) == PageState(race.text[p], race.f, <<>>, "")

RaceInput(get_ok, post_ok, outs) == Input("none", "", race.f, "", get_ok, post_ok, outs)

RaceQuiet == UNCHANGED <<uploaded_contracts, paid_files, paid_unique,
                         sessionVars, event, resp, chunkVars>>

\* 277-279: text = get_contract_text_by_hash(file_hash); if text:
RaceReadText(p) ==
    /\ race.pc[p] = "text"
    /\ \E get_ok \in BOOLEAN :
         LET t == get_contract_text_by_hash(RaceState(p),
                                            RaceInput(get_ok, TRUE, <<>>), race.f)
         IN  race' = [race EXCEPT !.text[p] = t,
                                  !.pc[p] = IF t = <<>> THEN "done" ELSE "summary"]
    /\ llm_calls' = <<>>
    /\ writes' = {}
    /\ UNCHANGED summaries
    /\ RaceQuiet

\* 284-287: existing = get_summary_by_hash(file_hash); if existing: ... else:
RaceReadSummary(p) ==
    /\ race.pc[p] = "summary"
    /\ \E get_ok \in BOOLEAN :
         LET existing == get_summary_by_hash(RaceState(p),
                                             RaceInput(get_ok, TRUE, <<>>), race.f)
         IN  race' = [race EXCEPT !.pc[p] =
                         IF existing # <<>> THEN "done" ELSE "compute"]
    /\ llm_calls' = <<>>
    /\ writes' = {}
    /\ UNCHANGED summaries
    /\ RaceQuiet

\* 291-302: the summarization, for every answer of the endpoint
RaceCompute(p) ==
    /\ race.pc[p] = "compute"
    /\ \E n \in {Len(Summarize(RaceState(p), RaceInput(TRUE, TRUE, AllAnswer),
                                race.text[p]).llm_calls)} :
       \E outs \in [1..n -> RaceOutcomes] :
       \E R \in {Summarize(RaceState(p), RaceInput(TRUE, TRUE, outs), race.text[p])} :
         /\ race' = [race EXCEPT !.output[p] = R.output, !.pc[p] = "save"]
         /\ llm_calls' = R.llm_calls
    /\ writes' = {}
    /\ UNCHANGED summaries
    /\ RaceQuiet

\* 304: save_summary(file_hash, output)
RaceSave(p) ==
    /\ race.pc[p] = "save"
    /\ \E post_ok \in BOOLEAN :
       \E R \in {save_summary(RaceState(p), RaceInput(TRUE, post_ok, <<>>),
                               race.f, race.output[p])} :
         /\ summaries' = R.summaries
         /\ writes' = R.writes
         /\ race' = [race EXCEPT !.pc[p] = "done",
                                  !.wrote[p] = post_ok,
                                  !.last = IF post_ok THEN p ELSE @]
    /\ llm_calls' = <<>>
    /\ RaceQuiet

NextRace ==
    \E p \in Procs :
        \/ RaceReadText(p)
        \/ RaceReadSummary(p)
        \/ RaceCompute(p)
        \/ RaceSave(p)

SpecRace == InitRace /\ [][NextRace]_vars

-----------------------------------------------------------------------------
(* The claims of the specification, C1 to C21 *)

Completed(h) ==
    [verify |-> "ok", type |-> "checkout.session.completed", file_hash |-> h]

\* the calls of a log made while the session held fingerprint h
CallsFor(log, h) == {i \in DOMAIN log : log[i].fh = h}

AllSucceeded(log) == \A i \in DOMAIN log : log[i].out # <<>>

\* a step of the app with the store answering every read and write
UploadStepOk(h) == Step("none", "", query, h, Session, TRUE, TRUE)
RedirectStepOk(h) == Step("none", "", h, "", FreshSession, TRUE, TRUE)

\* C1: Unauthorized analysis never runs: a request of the app for a
\* fingerprint that has no cached AnalysisResult and no PaymentRecord makes no
\* LLM call for it and ends by showing the payment prompt.
C1_UnauthorizedAnalysisNeverRuns ==
    [][\A h \in Hashes :
          (/\ event' = NoEvent
           /\ file_hash' = h
           /\ ~summaries[h].present
           /\ paid_files[h] = 0)
          => (CallsFor(llm_calls', h) = {} /\ view'.prompt)]_vars

\* C2: Idempotent no-recharge: when the summaries table holds an
\* AnalysisResult for a fingerprint, an upload of that content or a redirect
\* for it (the store answering) shows the stored result, makes no LLM call
\* for it and does not show the payment prompt, paid or not.
C2_IdempotentNoRecharge ==
    [][\A h \in Hashes :
          (/\ summaries[h].present
           /\ \/ uploaded_file' = h /\ UploadStepOk(h)
              \/ query' = h /\ uploaded_file' = "" /\ RedirectStepOk(h))
          => (/\ CallsFor(llm_calls', h) = {}
              /\ ~view'.prompt
              /\ view'.shown = summaries[h].value)]_vars

\* C3: Gate correctness: an upload of a fingerprint with no AnalysisResult and
\* no PaymentRecord ends in the payment prompt without an LLM call; and with a
\* PaymentRecord and no AnalysisResult, the next upload of it or redirect for
\* it (the store answering, every LLM call succeeding) calls the summarizer,
\* stores its non-empty output under the fingerprint and shows it.
C3_GateCorrectness ==
    [][\A h \in Hashes :
          /\ (/\ ~summaries[h].present
              /\ paid_files[h] = 0
              /\ uploaded_file' = h /\ query' = "" /\ UploadStepOk(h))
             => (view'.prompt /\ CallsFor(llm_calls', h) = {})
          /\ (/\ ~summaries[h].present
              /\ paid_files[h] > 0
              /\ AllSucceeded(llm_calls')
              /\ \/ uploaded_file' = h /\ query' = "" /\ UploadStepOk(h)
                 \/ /\ query' = h /\ uploaded_file' = ""
                    /\ uploaded_contracts[h].present
                    /\ RedirectStepOk(h))
             => (/\ CallsFor(llm_calls', h) # {}
                 /\ summaries'[h].present
                 /\ summaries'[h].value # <<>>
                 /\ analysis_output' = summaries'[h].value
                 /\ view'.shown = summaries'[h].value)]_vars

\* C4: Sole writer of payment: every step that changes paid_files is a
\* delivery to the webhook of an event whose signature verified, of type
\* checkout.session.completed, carrying a file_hash f in its metadata, and it
\* adds one row for f and nothing else; no step of the app changes
\* paid_files; a delivery with an invalid signature leaves every table as it
\* was and is answered 400.
C4_SoleWriterOfPayment ==
    [][/\ (paid_files' # paid_files)
          => (/\ event'.verify = "ok"
              /\ event'.type = "checkout.session.completed"
              /\ event'.file_hash \in Hashes
              /\ paid_files' =
                    [paid_files EXCEPT ![event'.file_hash] = @ + 1])
       /\ (event'.verify = "bad_signature")
          => (UNCHANGED storeVars /\ resp'.status = 400)]_vars

C4_Witness ==
    /\ event.verify = "ok"
    /\ event.file_hash \in Hashes
    /\ paid_files[event.file_hash] = 1
    /\ writes = {<<"paid_files", event.file_hash>>}
    /\ resp.status = 200
    /\ uploaded_contracts[event.file_hash].present

\* C5: record_payment is idempotent: delivering the verified completion event
\* for a fingerprint that already has its PaymentRecord (the store answering)
\* leaves paid_files as it was, with exactly one row for it, and is answered
\* 200.
C5_RecordPaymentIdempotent ==
    [][\A h \in Hashes :
          (paid_files[h] >= 1 /\ event' = Completed(h) /\ Delivery(Completed(h), TRUE))
          => (/\ paid_files' = paid_files
              /\ paid_files'[h] = 1
              /\ resp'.status = 200)]_vars

\* C6: No caching on failure: a request in which an LLM call made for a
\* fingerprint failed writes no row of the summaries table for it.
C6_NoCachingOnFailure ==
    \A i \in DOMAIN llm_calls :
        llm_calls[i].out = <<>> => <<"summaries", llm_calls[i].fh>> \notin writes

\* C7: A cached result stays accessible: once the summaries table holds a
\* non-empty AnalysisResult for a fingerprint, it holds a non-empty one for
\* it after every further step.
C7_CachedResultStays ==
    [][\A h \in Hashes :
          (summaries[h].present /\ summaries[h].value # <<>>)
          => (summaries'[h].present /\ summaries'[h].value # <<>>)]_vars

\* the call sequence the summarizer owes a text t
MapReduceShape(log, t) ==
    LET chs == split_into_chunks(t, DefaultMaxChars)
        n == Len(chs)
    IN  IF n = 1
        THEN Len(log) = 1 /\ log[1].text = t
        ELSE /\ Len(log) = n + 1
             /\ \A i \in 1..n : log[i].text = chs[i]
             /\ log[n + 1].text = JoinNLNL([i \in 1..n |-> log[i].out])

ParagraphsJoined(ps, i, j) ==
    Concat([k \in 1..(j - i + 1) |-> Cat(ps[i + k - 1], NLNL)])

\* chs cuts the paragraphs ps, from paragraph i on, into consecutive groups
RECURSIVE CutsAtParagraphs(_, _, _)
CutsAtParagraphs(chs, ps, i) ==
    IF chs = <<>> THEN i = Len(ps) + 1
    ELSE \E j \in (i - 1)..Len(ps) :
            /\ chs[1] = ParagraphsJoined(ps, i, j)
            /\ CutsAtParagraphs(Tail(chs), ps, j + 1)

\* C9: Single chunk for short text: for a text shorter than the budget,
\* split_into_chunks returns exactly one chunk, equal to the text.
C9_SingleChunkForShortText ==
    (cpc = "done" /\ StrLen(text) < max_chars) => chunks = <<text>>

C11_PaidIsTerminal ==
    [][\A h \in Hashes :
          (paid_files[h] > 0)
          => (/\ paid_files'[h] > 0
              /\ (/\ event' = NoEvent
                  /\ file_hash' = h
                  /\ contract_text' # <<>>
                  /\ analysis_output' = <<>>)
                 => ~view'.prompt)]_vars

\* C12: Completed payments become authorizations: when the completion event
\* of the checkout session the app created for a fingerprint is delivered to
\* the webhook and the store answers, the event carries the fingerprint and
\* the fingerprint has a PaymentRecord afterwards.
C12_CompletedPaymentAuthorizes ==
    [][\A h \in Hashes :
          (/\ checkout_url = h
           /\ event' = CompletionEvent(CheckoutSessionCreate(h))
           /\ Delivery(CompletionEvent(CheckoutSessionCreate(h)), TRUE))
          => (event'.file_hash = h /\ paid_files'[h] > 0)]_vars

\* C13: Failure surfaces from the summarizer: in every request, an LLM call
\* that failed is the last call the request made; no call, and no reduce
\* call in particular, follows a failed one.
C13_FailureSurfaces ==
    \A i \in DOMAIN llm_calls :
        llm_calls[i].out = <<>> => i = Len(llm_calls)

\* C14: Store unavailability is not mistaken for absence: an upload of a
\* fingerprint whose non-empty AnalysisResult is stored, in a run whose reads
\* of the store fail, does not show the payment prompt, makes no LLM call and
\* writes no summary.
C14_StoreFailureIsNotAbsence ==
    [][\A h \in Hashes :
          (/\ summaries[h].present
           /\ summaries[h].value # <<>>
           /\ uploaded_file' = h
           /\ Step("none", "", query, h, Session, FALSE, TRUE))
          => (/\ ~view'.prompt
              /\ llm_calls' = <<>>
              /\ <<"summaries", h>> \notin writes')]_vars

\* C15: At most one AnalysisResult write per fingerprint: no step writes the
\* summaries row of a fingerprint that already has one.
C15_AtMostOneSummaryWrite ==
    [][\A h \in Hashes :
          summaries[h].present => <<"summaries", h>> \notin writes']_vars

\* C16: Concurrent duplicate computation is benign: while two requests for
\* one authorized fingerprint interleave, the summaries table holds for it
\* either no row or one row whose text is the whole output of a request that
\* wrote, the one that wrote last; no other fingerprint gets a row.
C16_LastWriteWins ==
    race.f \in Hashes =>
        /\ \A h \in Hashes \ {race.f} : ~summaries[h].present
        /\ summaries[race.f].present <=> race.last \in Procs
        /\ race.last \in Procs
              => /\ race.wrote[race.last]
                 /\ summaries[race.f] = Row(race.output[race.last])

C16_Witness ==
    /\ race.f \in Hashes
    /\ \A p \in Procs : race.pc[p] = "done" /\ race.wrote[p]
    /\ race.output[1] # race.output[2]
    /\ race.output[1] # <<>> /\ race.output[2] # <<>>
    /\ race.last = 1
    /\ summaries[race.f] = Row(race.output[1])

\* C17: Truncation is only a last resort: every LLM call whose input is a
\* chunk of the session's document (the whole document when it makes one
\* chunk) sends that input whole; the input is no longer than the payload
\* limit.
C17_ChunksFitPayload ==
    \A i \in DOMAIN llm_calls :
        LET c == llm_calls[i]
            chs == split_into_chunks(ExtractedText(c.fh), DefaultMaxChars)
        IN  (/\ c.fh \in Hashes
             /\ \/ \E j \in DOMAIN chs : c.text = chs[j]
                \/ Len(chs) = 1 /\ c.text = ExtractedText(c.fh))
            => (c.payload = c.text /\ StrLen(c.text) <= MaxPayload)

\* chunk j of chs is paragraph k of ps and its separator, nothing else, at
\* the place of paragraph k
HoldsAlone(chs, ps, k, j) ==
    /\ chs[j] = Cat(ps[k], NLNL)
    /\ Concat(SubSeq(chs, 1, j - 1)) = ParagraphsJoined(ps, 1, k - 1)

\* C18: Oversized paragraph: for every text and budget, a paragraph longer
\* than the budget is, whole and followed by its separator, the content of
\* exactly one chunk, which holds no other paragraph.
C18_OversizedParagraphAlone ==
    (cpc = "done")
        => \A k \in DOMAIN SplitNLNL(text) :
              StrLen(SplitNLNL(text)[k]) > max_chars
              => Cardinality({j \in DOMAIN chunks :
                                HoldsAlone(chunks, SplitNLNL(text), k, j)}) = 1

C18_Witness ==
    /\ cpc = "done"
    /\ max_chars > 0
    /\ Len(SplitNLNL(text)) = 3
    /\ StrLen(SplitNLNL(text)[1]) > 0
    /\ StrLen(SplitNLNL(text)[1]) + 2 <= max_chars
    /\ StrLen(SplitNLNL(text)[2]) > max_chars
    /\ StrLen(SplitNLNL(text)[3]) > 0
    /\ Len(chunks) = 3
    /\ chunks[2] = Cat(SplitNLNL(text)[2], NLNL)

\* C19: split_into_chunks never emits an empty chunk: every chunk returned
\* is non-empty, and there are no more chunks than paragraphs.
C19_NoEmptyChunk ==
    (cpc = "done")
        => /\ \A j \in DOMAIN chunks : chunks[j] # <<>>
           /\ Len(chunks) <= Len(SplitNLNL(text))

\* the last call of a log made for fingerprint h
LastCallFor(log, h) ==
    CHOOSE i \in CallsFor(log, h) : \A j \in CallsFor(log, h) : j <= i

FirstCallFor(log, h) ==
    CHOOSE i \in CallsFor(log, h) : \A j \in CallsFor(log, h) : i <= j

\* C20: The analysis held in the session belongs to the current document:
\* after every run of the app a non-empty analysis_output is the summary
\* stored for the session's file_hash, or the output of a call the run made
\* for it, or what the session held before for the same file_hash; and a
\* run that writes a summary for h made calls for h, the first on the text
\* of h or its first chunk, and wrote the output of the last of them.
C20_AnalysisBelongsToDocument ==
    [][(event' = NoEvent)
          => /\ (analysis_output' # <<>>)
                => \/ summaries'[file_hash'] = Row(analysis_output')
                   \/ /\ CallsFor(llm_calls', file_hash') # {}
                      /\ llm_calls'[LastCallFor(llm_calls', file_hash')].out
                            = analysis_output'
                   \/ file_hash' = file_hash /\ analysis_output' = analysis_output
             /\ \A h \in Hashes :
                   (<<"summaries", h>> \in writes')
                   => /\ CallsFor(llm_calls', h) # {}
                      /\ llm_calls'[FirstCallFor(llm_calls', h)].text \in
                            {ExtractedText(h),
                             split_into_chunks(ExtractedText(h), DefaultMaxChars)[1]}
                      /\ summaries'[h] =
                            Row(llm_calls'[LastCallFor(llm_calls', h)].out)]_vars

\* 361-367: the checkout link is rendered in the payment branch of the
\* preview whenever the session holds a checkout_url
LinkShown == view.prompt /\ checkout_url # ""

\* C21: The payment link shown pays for the current document: whenever the
\* page shows a checkout link, the session whose link it is was created for
\* the session's current file_hash: its success redirect carries it.
C21_LinkPaysForCurrentDocument ==
    LinkShown => checkout_url = CheckoutSessionCreate(file_hash).url

====
